---- MODULE Spec2Model ----
(***************************************************************************)
(* State-machine model of TripAnalysisTable (src/artifacts/default.tsx):   *)
(* the generate -> filter -> sort pipeline of the trip planner, the React  *)
(* state it reads, the memoisation of the filtered list, the debounced     *)
(* price inputs and the one-shot exchange-rate fetch.                      *)
(*                                                                         *)
(* Encodings.  A Date at local noon is the ordinal day of the window       *)
(* (1 = 2025-04-01).  An ISO date string is the tuple <<year, month, day>>,*)
(* compared field by field (the fields are zero padded, so this is the     *)
(* string order).  A label such as "April 9" and a price input are         *)
(* sequences of characters (code units, resp. one-character strings).  An  *)
(* amount of money is the integer number of hundredths it denotes.  A      *)
(* JavaScript value that may also be NaN, undefined or null is a record    *)
(* [kind, val].  Leave days are counted in half days.  The exchange rate   *)
(* is in thousandths of a euro per rupee.                                  *)
(***************************************************************************)
EXTENDS Integers, Sequences, FiniteSets, TLC

VARIABLES
  sortField,          \* useState<string>('totalCost')
  sortDirection,      \* useState<'asc' | 'desc'>('asc')
  selectedDurations,  \* useState<number[]>([])
  maxPrice,           \* maxPriceHasan / maxPriceHatim / maxPriceHussain
  debouncedMaxPrice,  \* debouncedMaxPriceHasan / ...Hatim / ...Hussain
  roundPrices,        \* useState<boolean>(true)
  exchangeRate,       \* useState<number | null>(null)
  isLoadingRate,      \* useState(true)
  selectedCurrency,   \* useState<'INR' | 'EUR'>('INR')
  fetchStatus,        \* the promise of the exchange-rate fetch
  timer,              \* the pending call of the shared debounced function
  memo,               \* the state the cached value of useMemo was computed from
  utcOffset,          \* the time zone of the environment, hours east of UTC
  nEvents             \* number of events handled so far

vars == << sortField, sortDirection, selectedDurations, maxPrice,
           debouncedMaxPrice, roundPrices, exchangeRate, isLoadingRate,
           selectedCurrency, fetchStatus, timer, memo, utcOffset,
           nEvents >>

----------------------------------------------------------------------------
(* Bounds of the model *)

MaxEvents == 5

----------------------------------------------------------------------------
(* Static data *)

Num(n) == [ kind |-> "number", val |-> n ]
Null == [ kind |-> "null", val |-> 0 ]
NaN == [ kind |-> "NaN", val |-> 0 ]
Undefined == [ kind |-> "undefined", val |-> 0 ]

TravelerSet == {"hasan", "hatim", "hussain"}

DurationChoices == <<6, 7, 8, 9, 10>>
DurationSet == { DurationChoices[i] : i \in 1..Len(DurationChoices) }

\* Time zones of the environment, in hours east of UTC.
UtcOffsets == { 0, 13 }

LastStartDate == 34
WindowEnd == 40

prices ==
  [ hasanOutbound |->
      [ april |-> <<11021, 4547, 8535, 13860, 15062, 13410, 11038, 9093, 8789, 12665, 12766, 13309, 15019, 11723, 11672, 8237, 9839, 9155, 6120, 8981, 5056, 4547, 4740, 4547, 5878, 4547, 4547, 6287, 4547, 8092>>,
        may |-> <<9482, 6231, 4786, 8308, 6683, 4786, 4786, 4786, 4967, 6954, 6773, 6592, 6502, 6502, 11017, 6954, 5148, 7134, 6773, 8760, 10205, 9482, 12914, 13365, 11559, 11108, 10746, 4606, 11920, 8399>> ],
    hasanReturn |->
      [ april |-> <<6412, 5960, 8399, 7134, 6322, 8940, 6231, 6322, 5780, 6322, 6683, 9121, 11017, 6954, 8128, 9211, 9302, 8940, 16887, 17429, 18873, 11649, 11108, 14358, 10205, 16345, 16887, 10114, 8218, 6954>>,
        may |-> <<8218, 8850, 8940, 8037, 6322, 5238, 4154, 4967, 6051, 6683, 6231, 6322, 7044, 5419, 5960, 6954, 8218, 6954, 7405, 6412, 3432, 6051, 7044, 7134, 7134, 8760, 5780, 3342, 7315, 8940>> ],
    hatimOutbound |->
      [ april |-> <<18122, 18116, 18122, 19218, 18214, 17040, 16528, 18083, 18099, 16326, 16865, 16800, 17279, 16326, 18023, 17023, 16516, 16610, 16791, 16139, 16859, 16945, 18457, 17494, 15859, 17462, 16774, 17506, 16955, 16787>>,
        may |-> <<17609, 18241, 16887, 17609, 18422, 18783, 18603, 18332, 18241, 18151, 18332, 17970, 18422, 18241, 17700, 17067, 17700, 19596, 19596, 18422, 18332, 17519, 17609, 16887, 18332, 17700, 18783, 19506, 18061, 19867>> ],
    hatimReturn |->
      [ april |-> <<14990, 12914, 13184, 14810, 15171, 15984, 15261, 12462, 12643, 12191, 13365, 14990, 15171, 14810, 10114, 10114, 10024, 10114, 9843, 10295, 16706, 11740, 10114, 10566, 10024, 10205, 10114, 15984, 16706, 10114>>,
        may |-> <<10114, 14358, 16435, 14358, 15984, 45964, 16435, 15894, 10114, 15803, 10114, 14810, 13455, 10295, 14810, 10114, 15894, 16706, 13275, 15623, 13726, 14629, 20499, 16526, 10114, 16345, 19776, 19506, 17429, 19506>> ],
    hussainOutbound |->
      [ april |-> <<8128, 5870, 8128, 9843, 11017, 11649, 9843, 8489, 9843, 11288, 13726, 21221, 18061, 16164, 13094, 13004, 13997, 11830, 11378, 13636, 13997, 8308, 4877, 4877, 6141, 6954, 6954, 6412, 6141, 6141>>,
        may |-> <<6773, 4877, 4877, 4877, 7947, 4877, 5148, 4877, 4967, 4967, 4967, 4967, 4877, 4877, 4877, 4877, 4877, 5148, 5148, 4877, 4877, 4877, 4877, 6773, 4877, 6592, 5148, 5148, 4877, 4877>> ],
    hussainReturn |->
      [ april |-> <<3432, 3432, 3432, 3432, 3432, 3432, 3432, 4967, 3432, 4967, 7405, 10746, 11378, 7586, 9843, 9302, 9392, 10656, 14268, 14990, 14720, 13275, 14629, 13094, 18603, 22756, 15623, 8669, 8760, 8218>>,
        may |-> <<6141, 8308, 9302, 11378, 10385, 4335, 4967, 4335, 3432, 4335, 4335, 4335, 4335, 3432, 3432, 3432, 6502, 4335, 6954, 6141, 4335, 3432, 3432, 3432, 3432, 3432, 3432, 3432, 3432, 3432>> ] ]


HOLIDAYS ==
  [ german |-> << <<2025, 4, 18>>, <<2025, 4, 21>> >>,
    indian |-> << <<2025, 4, 18>>, <<2025, 5, 1>> >> ]

HYBRID_DAYS == [ hatim |-> << <<2025, 5, 2>> >> ]

----------------------------------------------------------------------------
(* Strings and numbers *)

\* JavaScript's < on two strings, or on two zero-padded ISO dates: the first
\* differing unit decides, a proper prefix is smaller.
RECURSIVE StrLess(_, _)
StrLess(a, b) ==
  IF b = <<>> THEN FALSE
  ELSE IF a = <<>> THEN TRUE
  ELSE IF Head(a) # Head(b) THEN Head(a) < Head(b)
  ELSE StrLess(Tail(a), Tail(b))

StrLeq(a, b) == a = b \/ StrLess(a, b)

\* String(n) for a day of the month, as UTF-16 code units.
DayDigits(n) ==
  IF n < 10 THEN << 48 + n >> ELSE << 48 + (n \div 10), 48 + (n % 10) >>

DigitChars == <<"0", "1", "2", "3", "4", "5", "6", "7", "8", "9">>

IsDigit(c) == \E i \in 1..10 : DigitChars[i] = c

DigitValue(c) == (CHOOSE i \in 1..10 : DigitChars[i] = c) - 1

RECURSIVE DecimalValue(_)
DecimalValue(str) ==
  IF str = <<>> THEN 0
  ELSE 10 * DecimalValue(SubSeq(str, 1, Len(str) - 1)) + DigitValue(str[Len(str)])

\* Number(str) on a string of the input alphabet: the empty string is 0, a
\* string of digits is its decimal value, any other string is NaN.
Number(str) ==
  IF \A i \in 1..Len(str) : IsDigit(str[i])
  THEN Num(100 * DecimalValue(str))
  ELSE NaN

IsNumber(x) == x.kind = "number"

\* !x for a number, NaN, undefined or null
Falsy(x) == ~IsNumber(x) \/ x.val = 0

\* JavaScript's <= on numbers: false as soon as one side is NaN or undefined.
NumLeq(a, b) == IsNumber(a) /\ IsNumber(b) /\ a.val <= b.val

RECURSIVE Gcd(_, _)
Gcd(a, b) == IF b = 0 THEN a ELSE Gcd(b, a % b)

\* The quotient a / b of two numbers as a reduced fraction (b > 0).
Quotient(a, b) ==
  LET g == Gcd(a, b) IN IF a = 0 THEN <<0, 1>> ELSE << a \div g, b \div g >>

----------------------------------------------------------------------------
(* Dates: a Date set to local noon is its ordinal day, 1 = 2025-04-01 *)

\* new Date(2025, monthIndex, day)
NewDate(monthIndex, day) == IF monthIndex = 3 THEN day ELSE 30 + day

\* getFullYear / getMonth + 1 / getDate of a Date
LocalYMD(date) ==
  IF date <= 0 THEN <<2025, 3, 31 + date>>
  ELSE IF date <= 30 THEN <<2025, 4, date>>
  ELSE <<2025, 5, date - 30>>

\* getDay: 0 is Sunday; 2025-04-01 is a Tuesday.
GetDay(date) == (date + 1) % 7

toDateString(date) == LocalYMD(date)

\* date.toISOString().split('T')[0]: the UTC calendar date of local noon.
toISODate(date, offset) ==
  LET utcHour == 12 - offset
  IN  IF utcHour < 0 THEN LocalYMD(date - 1)
      ELSE IF utcHour >= 24 THEN LocalYMD(date + 1)
      ELSE LocalYMD(date)

Includes(list, x) == \E i \in 1..Len(list) : list[i] = x

----------------------------------------------------------------------------
(* Calendar annotation *)

InRange(day, startStr, endStr) == StrLeq(startStr, day) /\ StrLeq(day, endStr)

getSpecialDays(start, end) ==
  LET startStr == toDateString(start)
      endStr == toDateString(end)
  IN  [ holidays |->
          [ german |-> SelectSeq(HOLIDAYS.german,
                                 LAMBDA h : InRange(h, startStr, endStr)),
            indian |-> SelectSeq(HOLIDAYS.indian,
                                 LAMBDA h : InRange(h, startStr, endStr)) ],
        hybridDays |->
          [ hatim |-> SelectSeq(HYBRID_DAYS.hatim,
                                LAMBDA h : InRange(h, startStr, endStr)) ] ]

\* The loop of getWorkingDays from curDate on; the count is in half days.
RECURSIVE WorkingDaysFrom(_, _, _, _, _)
WorkingDaysFrom(curDate, endDate, holidays, hybridDays, offset) ==
  IF curDate > endDate THEN 0
  ELSE LET dayOfWeek == GetDay(curDate)
           dateString == toISODate(curDate, offset)
           add == IF dayOfWeek # 0 /\ dayOfWeek # 6
                  THEN IF ~Includes(holidays, dateString)
                       THEN IF Includes(hybridDays, dateString) THEN 1 ELSE 2
                       ELSE 0
                  ELSE 0
       IN  add + WorkingDaysFrom(curDate + 1, endDate, holidays, hybridDays, offset)

getWorkingDays(startDate, endDate, holidays, hybridDays, offset) ==
  WorkingDaysFrom(startDate, endDate, holidays, hybridDays, offset)

RECURSIVE WeekendCountFrom(_, _)
WeekendCountFrom(curDate, endDate) ==
  IF curDate > endDate THEN 0
  ELSE (IF GetDay(curDate) = 0 \/ GetDay(curDate) = 6 THEN 1 ELSE 0)
       + WeekendCountFrom(curDate + 1, endDate)

\* The loop with curDate < endDate as its condition: the last day is left out.
getWeekendCount_ExclusiveEnd(startDate, endDate) ==
  WeekendCountFrom(startDate, endDate - 1)

getWeekendCount(startDate, endDate) == WeekendCountFrom(startDate, endDate)

----------------------------------------------------------------------------
(* Fares *)

\* Math.floor in the place of Math.round.
roundToNearest500_Floor(price) == (price \div 50000) * 50000

\* A rounding that takes an exact half down.
roundToNearest500_HalfDown(price) == ((2 * price + 49999) \div 100000) * 50000

\* Math.round(price / 500) * 500, price in hundredths.
roundToNearest500(price) == ((2 * price + 50000) \div 100000) * 50000

\* prices.<table>[monthKey][idx], in hundredths (idx is 0-based in the code).
PriceAt(table, monthKey, idx) == 100 * prices[table][monthKey][idx + 1]

LegPrice(table, monthKey, idx, round) ==
  IF round THEN roundToNearest500(PriceAt(table, monthKey, idx))
  ELSE PriceAt(table, monthKey, idx)

DateLabel(date) ==
  (IF date <= 30 THEN <<65, 112, 114, 105, 108>> ELSE <<77, 97, 121>>)
  \o <<32>> \o DayDigits(IF date <= 30 THEN date ELSE date - 30)

----------------------------------------------------------------------------
(* Combination generator *)

\* The body of the inner loop of generateDateAnalysis for one pair that
\* passed the window test.
MakeOption(startDate, duration, round, offset) ==
  LET endDate == startDate + duration - 1
      startIdx == IF startDate <= 30 THEN startDate - 1 ELSE startDate - 31
      endIdx == IF endDate <= 30 THEN endDate - 1 ELSE endDate - 31
      startMonthKey == IF startDate <= 30 THEN "april" ELSE "may"
      endMonthKey == IF endDate <= 30 THEN "april" ELSE "may"
      hasanOutbound == LegPrice("hasanOutbound", startMonthKey, startIdx, round)
      hasanReturn == LegPrice("hasanReturn", endMonthKey, endIdx, round)
      hatimOutbound == LegPrice("hatimOutbound", startMonthKey, startIdx, round)
      hatimReturn == LegPrice("hatimReturn", endMonthKey, endIdx, round)
      hussainOutbound == LegPrice("hussainOutbound", startMonthKey, startIdx, round)
      hussainReturn == LegPrice("hussainReturn", endMonthKey, endIdx, round)
      startDateObj == NewDate(IF startDate <= 30 THEN 3 ELSE 4,
                              IF startDate <= 30 THEN startDate ELSE startDate - 30)
      endDateObj == NewDate(IF endDate <= 30 THEN 3 ELSE 4,
                            IF endDate <= 30 THEN endDate ELSE endDate - 30)
      specialDays == getSpecialDays(startDateObj, endDateObj)
      germanLeaves == getWorkingDays(startDateObj, endDateObj,
                                     specialDays.holidays.german, <<>>, offset)
      indianLeaves == getWorkingDays(startDateObj, endDateObj,
                                     specialDays.holidays.indian,
                                     specialDays.hybridDays.hatim, offset)
      weekendCount == getWeekendCount(startDateObj, endDateObj)
  IN  [ dates |-> [ start |-> DateLabel(startDate), end |-> DateLabel(endDate) ],
        holidays |-> specialDays.holidays,
        hybridDays |-> specialDays.hybridDays,
        weekends |-> weekendCount,
        duration |-> duration,
        costs |-> [ hasan |-> hasanOutbound + hasanReturn,
                    hatim |-> hatimOutbound + hatimReturn,
                    hussain |-> hussainOutbound + hussainReturn,
                    total |-> hasanOutbound + hasanReturn + hatimOutbound
                              + hatimReturn + hussainOutbound + hussainReturn ],
        leaves |-> [ german |-> germanLeaves, indian |-> indianLeaves ] ]

\* MakeOption is a function of its arguments alone: its values, tabulated.
OptionTable ==
  [ offset \in UtcOffsets, round \in BOOLEAN, startDate \in 1..LastStartDate,
    duration \in DurationSet |-> MakeOption(startDate, duration, round, offset) ]

\* One pass of the outer loop: the Options of one start day, in the order of
\* the selected durations; a pair that ends after the window is skipped.
OptionsOfStart(startDate, durations, round, offset) ==
  LET kept == SelectSeq(durations,
                        LAMBDA duration : ~(startDate + duration - 1 > WindowEnd))
  IN  [ i \in 1..Len(kept) |-> OptionTable[offset, round, startDate, kept[i]] ]

RECURSIVE GenerateFrom(_, _, _, _)
GenerateFrom(startDate, durations, round, offset) ==
  IF startDate > LastStartDate THEN <<>>
  ELSE OptionsOfStart(startDate, durations, round, offset)
       \o GenerateFrom(startDate + 1, durations, round, offset)

\* Without the early return the fallback of the inner loop enumerates all
\* five durations when none is selected.
generateDateAnalysis_NoEarlyReturn(durations, round, offset) ==
  GenerateFrom(1, IF Len(durations) > 0 THEN durations ELSE DurationChoices,
               round, offset)

generateDateAnalysis(durations, round, offset) ==
  IF Len(durations) = 0 THEN <<>>
  ELSE GenerateFrom(1, IF Len(durations) > 0 THEN durations ELSE DurationChoices,
                    round, offset)

----------------------------------------------------------------------------
(* Filter and sort engine *)

\* Without the test of the rate: a number times null is 0.
convertPrice_NoRateTest(priceInINR, currency, rate) ==
  IF currency = "INR" THEN priceInINR
  ELSE IF ~IsNumber(priceInINR) THEN NaN
  ELSE Num((priceInINR.val * (IF IsNumber(rate) THEN rate.val ELSE 0) + 500) \div 1000)

\* Number((priceInINR * exchangeRate).toFixed(2)); undefined * rate is NaN.
convertPrice(priceInINR, currency, rate) ==
  IF currency = "INR" \/ Falsy(rate) THEN priceInINR
  ELSE IF ~IsNumber(priceInINR) THEN NaN
  ELSE Num((priceInINR.val * rate.val + 500) \div 1000)

\* The cost compared in rupees, whatever the display currency.
PassesConstraint_Unconverted(cost, max, currency, rate) ==
  max = <<>> \/ NumLeq(Num(cost), Number(max))

\* The comparison the wrong way round.
PassesConstraint_Reversed(cost, max, currency, rate) ==
  max = <<>> \/ NumLeq(Number(max), convertPrice(Num(cost), currency, rate))

PassesConstraint(cost, max, currency, rate) ==
  max = <<>> \/ NumLeq(convertPrice(Num(cost), currency, rate), Number(max))

\* The callback of the useMemo of filteredOptions.
ComputeFilteredOptions(durations, maxP, round, currency, rate, offset) ==
  LET options == generateDateAnalysis(durations, round, offset)
  IN  SelectSeq(options,
        LAMBDA option :
          LET hasanConstraint ==
                PassesConstraint(option.costs.hasan, maxP["hasan"], currency, rate)
              hatimConstraint ==
                PassesConstraint(option.costs.hatim, maxP["hatim"], currency, rate)
              hussainConstraint ==
                PassesConstraint(option.costs.hussain, maxP["hussain"], currency, rate)
          IN  hasanConstraint /\ hatimConstraint /\ hussainConstraint)

Str(str) == [ kind |-> "string", val |-> str ]

CostFields == {"hasan", "hatim", "hussain", "total"}

\* The start day itself as the key of 'dates': a chronological order.
SortCriterion_DatesByOrdinal(option, field, currency, rate) ==
  IF field = "dates"
  THEN Num(CHOOSE start \in 1..WindowEnd : DateLabel(start) = option.dates.start)
  ELSE IF field = "leaves"
       THEN Num((option.leaves.german + option.leaves.indian) * 100
                + option.leaves.german)
  ELSE IF field = "duration" THEN Num(option.duration)
  ELSE LET price == IF field \in CostFields THEN Num(option.costs[field])
                    ELSE Undefined
       IN  convertPrice(price, currency, rate)

\* The composite key of the leaves with the Indian leave as its second term.
SortCriterion_LeavesTieByIndian(option, field, currency, rate) ==
  IF field = "dates" THEN Str(option.dates.start)
  ELSE IF field = "leaves"
       THEN Num((option.leaves.german + option.leaves.indian) * 100
                + option.leaves.indian)
  ELSE IF field = "duration" THEN Num(option.duration)
  ELSE LET price == IF field \in CostFields THEN Num(option.costs[field])
                    ELSE Undefined
       IN  convertPrice(price, currency, rate)

\* The iteratee handed to _.orderBy.  The leaves are in half days, so the
\* composite key is twice the one of the code; a key is only compared with
\* keys of the same field.
SortCriterion(option, field, currency, rate) ==
  IF field = "dates" THEN Str(option.dates.start)
  ELSE IF field = "leaves"
       THEN Num((option.leaves.german + option.leaves.indian) * 100
                + option.leaves.german)
  ELSE IF field = "duration" THEN Num(option.duration)
  ELSE LET price == IF field \in CostFields THEN Num(option.costs[field])
                    ELSE Undefined
       IN  convertPrice(price, currency, rate)

\* lodash compareAscending on strings, numbers, NaN and undefined.
compareAscending(value, other) ==
  LET valIsDefined == value.kind # "undefined"
      valIsReflexive == value.kind # "NaN"
      othIsDefined == other.kind # "undefined"
      othIsReflexive == other.kind # "NaN"
      same == valIsReflexive /\ value = other
      greater == \/ value.kind = "number" /\ other.kind = "number" /\ value.val > other.val
                 \/ value.kind = "string" /\ other.kind = "string"
                    /\ StrLess(other.val, value.val)
      less == \/ value.kind = "number" /\ other.kind = "number" /\ value.val < other.val
              \/ value.kind = "string" /\ other.kind = "string"
                 /\ StrLess(value.val, other.val)
  IN  IF same THEN 0
      ELSE IF greater \/ (~valIsDefined /\ othIsReflexive) \/ ~valIsReflexive THEN 1
      ELSE IF less \/ (~othIsDefined /\ valIsReflexive) \/ ~othIsReflexive THEN -1
      ELSE 0

\* lodash compareMultiple with one criterion and one order.
compareMultiple(object, other, order) ==
  LET result == compareAscending(object.criteria, other.criteria)
  IN  IF result # 0 THEN result * (IF order = "desc" THEN -1 ELSE 1)
      ELSE object.index - other.index

Reverse(seq) == [ i \in 1..Len(seq) |-> seq[Len(seq) + 1 - i] ]

\* A descending order obtained by reversing the ascending one.
orderBy_ReverseForDesc(collection, field, order, currency, rate) ==
  LET entries == [ i \in 1..Len(collection) |->
                     [ criteria |-> SortCriterion(collection[i], field, currency, rate),
                       index |-> i ] ]
      sorted == SortSeq(entries, LAMBDA a, b : compareMultiple(a, b, "asc") < 0)
      ascending == [ i \in 1..Len(sorted) |-> collection[sorted[i].index] ]
  IN  IF order = "desc" THEN Reverse(ascending) ELSE ascending

\* _.orderBy(collection, [iteratee], [order]): baseOrderBy maps every element
\* to its criterion and index, sorts with compareMultiple and maps back.  With
\* criteria that are strings, numbers or undefined the comparison is a total
\* order and the result does not depend on the sorting algorithm; with NaN
\* criteria (sort field 'totalCost', euro selected, rate stored) it is not,
\* and the order Array.prototype.sort gives is implementation-defined: no
\* property below reads the order of that case.
orderBy(collection, field, order, currency, rate) ==
  LET entries == [ i \in 1..Len(collection) |->
                     [ criteria |-> SortCriterion(collection[i], field, currency, rate),
                       index |-> i ] ]
      sorted == SortSeq(entries, LAMBDA a, b : compareMultiple(a, b, order) < 0)
  IN  [ i \in 1..Len(sorted) |-> collection[sorted[i].index] ]

----------------------------------------------------------------------------
(* Inputs of the environment *)

\* What an onChange event of a price input can carry in e.target.value: the
\* handler stores the string as it is, and what the host's number input lets
\* through is not decided by the component.
PriceInputs == { <<>>, <<"0">>, <<"1", "5", "0", "0", "0">>, <<"a", "b", "c">> }

\* The ceilings the filter is examined with: those and one that is selective
\* in euros.
CeilingSamples == PriceInputs \cup { <<"2", "0", "0">> }

\* data.rates.EUR of a successful response, in thousandths.
Rates == { Num(11) }

\* The column headers of the table with the field each hands to handleSort.
Headers ==
  [ Dates |-> "dates", Duration |-> "duration", HasanCost |-> "duration",
    HatimCost |-> "duration", HussainCost |-> "duration",
    TotalCost |-> "duration", LeaveDays |-> "duration" ]

----------------------------------------------------------------------------
(* State machine *)

NoTimer == <<>>

\* String(x * num / den) for a number x: the reduced fraction that names the
\* value (the rounding of the floating-point division is left out); NaN is
\* written 0/0.
StringOfFraction(x, num, den) ==
  IF IsNumber(x) THEN Quotient(x.val * num, den) ELSE <<0, 0>>

Init ==
  /\ sortField = "totalCost"
  /\ sortDirection = "asc"
  /\ selectedDurations = <<>>
  /\ maxPrice = [ t \in TravelerSet |-> <<>> ]
  /\ debouncedMaxPrice = [ t \in TravelerSet |-> <<>> ]
  /\ roundPrices = TRUE
  /\ exchangeRate = Null
  /\ isLoadingRate = TRUE
  /\ selectedCurrency = "INR"
  /\ fetchStatus = "pending"
  /\ timer = NoTimer
  /\ utcOffset \in UtcOffsets
  /\ memo = [ selectedDurations |-> selectedDurations, maxPrice |-> maxPrice,
              roundPrices |-> roundPrices, selectedCurrency |-> selectedCurrency,
              exchangeRate |-> exchangeRate ]
  /\ nEvents = 0

\* The render that follows a state update: useMemo calls its callback again
\* when one of its dependencies changed, and the callback reads the state of
\* that render; otherwise useMemo returns the list it cached.
Render(depsChanged) ==
  memo' =
    IF depsChanged
    THEN [ selectedDurations |-> selectedDurations', maxPrice |-> maxPrice',
           roundPrices |-> roundPrices', selectedCurrency |-> selectedCurrency',
           exchangeRate |-> exchangeRate' ]
    ELSE memo

\* The list useMemo returns: the one its callback computed when it last ran.
filteredOptions ==
  ComputeFilteredOptions(memo.selectedDurations, memo.maxPrice, memo.roundPrices,
                         memo.selectedCurrency, memo.exchangeRate, utcOffset)

sortedOptions ==
  orderBy(filteredOptions, sortField, sortDirection, selectedCurrency, exchangeRate)

\* onCheckedChange of the duration switch of `days`.
ToggleDuration(days) ==
  /\ LET checked == ~Includes(selectedDurations, days)
     IN  selectedDurations' =
           IF checked THEN Append(selectedDurations, days)
           ELSE SelectSeq(selectedDurations, LAMBDA d : d # days)
  /\ UNCHANGED << sortField, sortDirection, maxPrice, debouncedMaxPrice,
                  roundPrices, exchangeRate, isLoadingRate, selectedCurrency,
                  fetchStatus, timer >>
  /\ Render(TRUE)

\* onChange of the price input of `traveler`.
PriceChange(traveler, value) ==
  /\ value # maxPrice[traveler]
  /\ LET priceInINR ==
           IF selectedCurrency = "EUR" /\ ~Falsy(exchangeRate)
           THEN StringOfFraction(Number(value), 1000, 100 * exchangeRate.val)
           ELSE StringOfFraction(Number(value), 1, 100)
     IN  timer' = << [ setter |-> traveler, value |-> priceInINR ] >>
  /\ maxPrice' = [ maxPrice EXCEPT ![traveler] = value ]
  /\ UNCHANGED << sortField, sortDirection, selectedDurations, debouncedMaxPrice,
                  roundPrices, exchangeRate, isLoadingRate, selectedCurrency,
                  fetchStatus >>
  /\ Render(FALSE)

\* The 400 ms of the debounced function elapse: its last call is carried out.
DebounceFire ==
  /\ timer # NoTimer
  /\ debouncedMaxPrice' =
       [ debouncedMaxPrice EXCEPT ![timer[1].setter] = timer[1].value ]
  /\ timer' = NoTimer
  /\ UNCHANGED << sortField, sortDirection, selectedDurations, maxPrice,
                  roundPrices, exchangeRate, isLoadingRate, selectedCurrency,
                  fetchStatus >>
  /\ Render(debouncedMaxPrice' # debouncedMaxPrice)

\* onCheckedChange of the round-prices switch.
SetRoundPrices ==
  /\ roundPrices' = ~roundPrices
  /\ UNCHANGED << sortField, sortDirection, selectedDurations, maxPrice,
                  debouncedMaxPrice, exchangeRate, isLoadingRate,
                  selectedCurrency, fetchStatus, timer >>
  /\ Render(TRUE)

\* onCheckedChange of the currency switch.
SetSelectedCurrency ==
  /\ selectedCurrency' = IF selectedCurrency = "INR" THEN "EUR" ELSE "INR"
  /\ UNCHANGED << sortField, sortDirection, selectedDurations, maxPrice,
                  debouncedMaxPrice, roundPrices, exchangeRate, isLoadingRate,
                  fetchStatus, timer >>
  /\ Render(TRUE)

\* The fetch resolves and its JSON carries data.rates.EUR = rate.
FetchResolved(rate) ==
  /\ fetchStatus = "pending"
  /\ fetchStatus' = "fulfilled"
  /\ exchangeRate' = rate
  /\ isLoadingRate' = FALSE
  /\ UNCHANGED << sortField, sortDirection, selectedDurations, maxPrice,
                  debouncedMaxPrice, roundPrices, selectedCurrency, timer >>
  /\ Render(exchangeRate' # exchangeRate)

\* The fetch (or the parsing of its response) fails: the catch handler runs.
FetchRejected ==
  /\ fetchStatus = "pending"
  /\ fetchStatus' = "rejected"
  /\ isLoadingRate' = FALSE
  /\ UNCHANGED << sortField, sortDirection, selectedDurations, maxPrice,
                  debouncedMaxPrice, roundPrices, exchangeRate,
                  selectedCurrency, timer >>
  /\ Render(FALSE)

handleSort(field) ==
  /\ IF sortField = field
     THEN /\ sortDirection' = IF sortDirection = "asc" THEN "desc" ELSE "asc"
          /\ UNCHANGED sortField
     ELSE /\ sortField' = field
          /\ sortDirection' = "asc"

\* onClick of a column header.
HeaderClick(header) ==
  /\ handleSort(Headers[header])
  /\ UNCHANGED << selectedDurations, maxPrice, debouncedMaxPrice, roundPrices,
                  exchangeRate, isLoadingRate, selectedCurrency, fetchStatus,
                  timer >>
  /\ Render(FALSE)

\* One more event of a session of at most MaxEvents events.
Event ==
  /\ nEvents < MaxEvents
  /\ nEvents' = nEvents + 1
  /\ UNCHANGED utcOffset

Next ==
  \/ \E days \in DurationSet : Event /\ ToggleDuration(days)
  \/ \E traveler \in TravelerSet, value \in PriceInputs :
       Event /\ PriceChange(traveler, value)
  \/ Event /\ DebounceFire
  \/ Event /\ SetRoundPrices
  \/ Event /\ SetSelectedCurrency
  \/ \E rate \in Rates : Event /\ FetchResolved(rate)
  \/ Event /\ FetchRejected
  \/ \E header \in DOMAIN Headers : Event /\ HeaderClick(header)

\* The component from its construction on, over sessions of MaxEvents events.
Spec == Init /\ [][Next]_vars

----------------------------------------------------------------------------
(* The generator alone: every selection of durations and both values of the *)
(* rounding flag, reached by the two switches.                              *)

Free == UNCHANGED << nEvents, utcOffset >>

NextGen ==
  \/ \E days \in DurationSet : Free /\ ToggleDuration(days)
  \/ Free /\ SetRoundPrices

SpecGen == Init /\ [][NextGen]_vars

----------------------------------------------------------------------------
(* The filter alone: the component with some durations selected and ceilings *)
(* typed and debounced before the fetch settles; then the fetch settles and  *)
(* the currency switch is used.                                              *)

DurationSamples == { <<7>>, <<10, 6>> }

CurrentSnapshot ==
  [ selectedDurations |-> selectedDurations, maxPrice |-> maxPrice,
    roundPrices |-> roundPrices, selectedCurrency |-> selectedCurrency,
    exchangeRate |-> exchangeRate ]

InitFilter ==
  /\ sortField = "totalCost"
  /\ sortDirection = "asc"
  /\ selectedDurations \in DurationSamples
  /\ maxPrice \in [ TravelerSet -> CeilingSamples ]
  /\ debouncedMaxPrice =
       [ t \in TravelerSet |->
           IF maxPrice[t] = <<>> THEN <<>>
           ELSE StringOfFraction(Number(maxPrice[t]), 1, 100) ]
  /\ roundPrices \in BOOLEAN
  /\ exchangeRate = Null
  /\ isLoadingRate = TRUE
  /\ selectedCurrency = "INR"
  /\ fetchStatus = "pending"
  /\ timer = NoTimer
  /\ utcOffset \in UtcOffsets
  /\ memo = CurrentSnapshot
  /\ nEvents = 0

NextFilter ==
  \/ Free /\ SetSelectedCurrency
  \/ \E rate \in Rates : Free /\ FetchResolved(rate)
  \/ Free /\ FetchRejected

SpecFilter == InitFilter /\ [][NextFilter]_vars

----------------------------------------------------------------------------
(* The sort alone: the filtered list of some selection of durations under    *)
(* every sort key, direction, currency and rate; then headers are clicked.   *)

InitSort ==
  /\ sortField \in {"dates", "leaves", "duration", "hasan", "hatim", "hussain", "total"}
  /\ sortDirection \in {"asc", "desc"}
  /\ selectedDurations \in DurationSamples
  /\ maxPrice = [ t \in TravelerSet |-> <<>> ]
  /\ debouncedMaxPrice = [ t \in TravelerSet |-> <<>> ]
  /\ roundPrices \in BOOLEAN
  /\ \/ exchangeRate = Null /\ isLoadingRate = TRUE /\ fetchStatus = "pending"
     \/ exchangeRate \in Rates /\ isLoadingRate = FALSE /\ fetchStatus = "fulfilled"
  /\ selectedCurrency \in {"INR", "EUR"}
  /\ timer = NoTimer
  /\ utcOffset \in UtcOffsets
  /\ memo = CurrentSnapshot
  /\ nEvents = 0

NextSort == \E header \in DOMAIN Headers : Free /\ HeaderClick(header)

SpecSort == InitSort /\ [][NextSort]_vars

----------------------------------------------------------------------------
(* Properties *)

\* The list the useMemo callback computes from the current state.
CurrentFilteredOptions ==
  ComputeFilteredOptions(selectedDurations, maxPrice, roundPrices,
                         selectedCurrency, exchangeRate, utcOffset)

\* The same with the ceiling of `traveler` replaced by `value`.
FilteredWithCeiling(traveler, value) ==
  ComputeFilteredOptions(selectedDurations, [ maxPrice EXCEPT ![traveler] = value ],
                         roundPrices, selectedCurrency, exchangeRate, utcOffset)

\* The Options the generator returns in the current state.
GeneratedOptions == generateDateAnalysis(selectedDurations, roundPrices, utcOffset)

SortKeys == {"dates", "leaves", "duration", "hasan", "hatim", "hussain", "total"}

Indices(seq) == 1..Len(seq)

\* Number of Options of `options` for the pair (start, duration).
OptionsOfPair(options, start, duration) ==
  Cardinality({ i \in Indices(options) :
                  /\ options[i].dates.start = DateLabel(start)
                  /\ options[i].duration = duration })

\* C1: for every start ordinal of the window 1..40 and every duration of
\* {6,...,10}, the generator returns exactly one Option for the pair when the
\* duration is selected and start + duration - 1 <= 40, and none otherwise.
C1_OneOptionPerValidPair ==
  LET options == GeneratedOptions
  IN  \A start \in 1..WindowEnd, duration \in DurationSet :
        OptionsOfPair(options, start, duration) =
          IF /\ Includes(selectedDurations, duration)
             /\ start + duration - 1 <= WindowEnd
          THEN 1 ELSE 0

\* C5: when no duration is selected, the generator returns no Option and the
\* filtered and the sorted list are empty, whatever the ceilings, the rounding
\* flag, the currency, the rate and the sort state are.
C5_EmptySelectionEmptyResult ==
  selectedDurations = <<>> =>
    /\ GeneratedOptions = <<>>
    /\ filteredOptions = <<>>
    /\ sortedOptions = <<>>

\* Every switch of a duration was put back, with a ceiling typed, the euro
\* selected and a rate stored.
C5_Witness ==
  /\ selectedDurations = <<>>
  /\ nEvents >= 2
  /\ memo.selectedCurrency = "EUR"
  /\ ~Falsy(memo.exchangeRate)
  /\ \E t \in TravelerSet : maxPrice[t] # <<>>

\* The fare of `table` on ordinal day k: April's k-th fare up to day 30, May's
\* (k - 30)-th after it.
FareOfDay(table, k) ==
  100 * (IF k <= 30 THEN prices[table].april[k] ELSE prices[table].may[k - 30])

\* y is x rounded to the nearest multiple of 500 when `round`, and x otherwise.
IsRoundedFare(x, y, round) ==
  IF round THEN y % 50000 = 0 /\ 2 * x - 2 * y <= 50000 /\ 2 * y - 2 * x <= 50000
  ELSE y = x

\* The cost of a traveler with the given tables for an Option from day
\* `start` to day `end` is r(outbound fare) + r(return fare).
IsCostOf(cost, outbound, return, start, end, round) ==
  \E a \in { cost - k * 50000 : k \in 0..(cost \div 50000) } \cup { FareOfDay(outbound, start) } :
    /\ IsRoundedFare(FareOfDay(outbound, start), a, round)
    /\ IsRoundedFare(FareOfDay(return, end), cost - a, round)

OptionCostsAreRoundedLegs(option, round) ==
  \E start \in 1..WindowEnd :
    /\ option.dates.start = DateLabel(start)
    /\ LET end == start + option.duration - 1
       IN  /\ option.dates.end = DateLabel(end)
           /\ IsCostOf(option.costs.hasan, "hasanOutbound", "hasanReturn",
                       start, end, round)
           /\ IsCostOf(option.costs.hatim, "hatimOutbound", "hatimReturn",
                       start, end, round)
           /\ IsCostOf(option.costs.hussain, "hussainOutbound", "hussainReturn",
                       start, end, round)
    /\ option.costs.total =
         option.costs.hasan + option.costs.hatim + option.costs.hussain

\* C7: the cost of each traveler in every generated Option is r(outbound fare
\* of the start day) + r(return fare of the end day), with r the rounding to
\* the nearest multiple of 500 when the rounding flag is on and the identity
\* when it is off; the total is the sum of the three costs.
C7_CostsAreRoundedLegs ==
  LET options == GeneratedOptions
  IN  \A i \in Indices(options) : OptionCostsAreRoundedLegs(options[i], roundPrices)

\* Rounding is on and an Option from April into May has a cost that differs
\* from the rounded sum of its two fares.
C7_Witness ==
  /\ roundPrices
  /\ LET options == GeneratedOptions
     IN  \E i \in Indices(options), start \in 25..30 :
           /\ options[i].dates.start = DateLabel(start)
           /\ start + options[i].duration - 1 > 30
           /\ options[i].costs.hasan #
                roundToNearest500(FareOfDay("hasanOutbound", start)
                  + FareOfDay("hasanReturn", start + options[i].duration - 1))

\* C8: the active sort key is one of dates, leaves, duration, hasan, hatim,
\* hussain, total, and the sort projection of every Option is a string or a
\* number.
C8_SortKeyInEnumeratedSet ==
  /\ sortField \in SortKeys
  /\ LET options == filteredOptions
     IN  \A i \in Indices(options) :
           SortCriterion(options[i], sortField, selectedCurrency,
                         exchangeRate).kind \in {"string", "number"}

\* C2: in every state where no debounce timer is pending, the filtered list
\* in use is the filter applied with the current ceilings to the Options
\* generated from the current durations and rounding flag.
C2_FilteredListIsCurrent ==
  (timer = NoTimer /\ memo # CurrentSnapshot) =>
    filteredOptions = CurrentFilteredOptions

\* C3: a ceiling that does not parse as a number removes no Option: the list
\* is the one an empty ceiling gives.
C3_NonNumericCeilingUnconstrained ==
  \A t \in TravelerSet :
    ~IsNumber(Number(maxPrice[t])) =>
      CurrentFilteredOptions = FilteredWithCeiling(t, <<>>)

\* The amount shown for a cost: the cost times the rate, to the nearest
\* hundredth, when the euro is selected and a rate is stored; the cost itself
\* otherwise.
DisplayedCost(cost) ==
  IF selectedCurrency = "EUR" /\ IsNumber(exchangeRate) /\ exchangeRate.val # 0
  THEN CHOOSE n \in { (cost * exchangeRate.val) \div 1000,
                      (cost * exchangeRate.val) \div 1000 + 1 } :
         /\ 1000 * n - cost * exchangeRate.val <= 500
         /\ cost * exchangeRate.val - 1000 * n < 500
  ELSE cost

CeilingsAreNumeric == \A t \in TravelerSet : IsNumber(Number(maxPrice[t]))

\* C4: with every ceiling empty or numeric, an Option is in the filtered
\* result iff, for each traveler whose ceiling is not empty, the displayed
\* cost of the traveler is at most the ceiling.
C4_FilterIffWithinCeilings ==
  CeilingsAreNumeric =>
    LET generated == GeneratedOptions
        result == CurrentFilteredOptions
    IN  /\ \A i \in Indices(generated) :
             Includes(result, generated[i]) <=>
               \A t \in TravelerSet :
                 \/ maxPrice[t] = <<>>
                 \/ DisplayedCost(generated[i].costs[t]) <= Number(maxPrice[t]).val
        /\ \A j \in Indices(result) : Includes(generated, result[j])

\* The euro is selected with a rate stored, a ceiling is typed, and it keeps
\* some Options and removes others.
C4_Witness ==
  /\ selectedCurrency = "EUR"
  /\ ~Falsy(exchangeRate)
  /\ CeilingsAreNumeric
  /\ \E t \in TravelerSet : maxPrice[t] # <<>>
  /\ LET result == CurrentFilteredOptions
     IN  0 < Len(result) /\ Len(result) < Len(GeneratedOptions)

\* C6: while no rate is stored, convertPrice returns its argument, so the
\* filter and the cost sort keys use the amounts in rupees whichever currency
\* is selected; a failed fetch leaves the rate absent and clears the loading
\* flag.
C6_NoRateMeansBaseCurrency ==
  /\ fetchStatus = "pending" => exchangeRate = Null
  /\ fetchStatus = "rejected" => exchangeRate = Null /\ ~isLoadingRate
  /\ exchangeRate = Null =>
       LET generated == GeneratedOptions
       IN  /\ \A i \in Indices(generated), field \in CostFields :
                /\ convertPrice(Num(generated[i].costs[field]), selectedCurrency,
                                exchangeRate) = Num(generated[i].costs[field])
                /\ SortCriterion(generated[i], field, selectedCurrency, exchangeRate)
                     = Num(generated[i].costs[field])
           /\ CurrentFilteredOptions =
                ComputeFilteredOptions(selectedDurations, maxPrice, roundPrices,
                                       "INR", exchangeRate, utcOffset)

\* The fetch has failed, the euro is selected and a numeric ceiling filters
\* the Options.
C6_Witness ==
  /\ fetchStatus = "rejected"
  /\ selectedCurrency = "EUR"
  /\ CeilingsAreNumeric
  /\ LET result == CurrentFilteredOptions
     IN  0 < Len(result) /\ Len(result) < Len(GeneratedOptions)

\* `value` is a numeric ceiling at least as tight as the one `traveler` has.
Tightens(traveler, value) ==
  /\ value # <<>>
  /\ IsNumber(Number(value))
  /\ \/ maxPrice[traveler] = <<>>
     \/ /\ IsNumber(Number(maxPrice[traveler]))
        /\ Number(value).val <= Number(maxPrice[traveler]).val

\* C9: lowering the numeric ceiling of one traveler, or setting a numeric
\* ceiling where the traveler had none, with everything else unchanged, gives
\* a filtered result contained in the previous one.
C9_FilterMonotonic ==
  LET result == CurrentFilteredOptions
  IN  \A t \in TravelerSet, value \in CeilingSamples :
        Tightens(t, value) =>
          LET tightened == FilteredWithCeiling(t, value)
          IN  \A j \in Indices(tightened) : Includes(result, tightened[j])

\* A ceiling is lowered and the result loses some Options and keeps others.
C9_Witness ==
  \E t \in TravelerSet, value \in CeilingSamples :
    /\ Tightens(t, value)
    /\ maxPrice[t] # <<>>
    /\ LET tightened == FilteredWithCeiling(t, value)
       IN  0 < Len(tightened) /\ Len(tightened) < Len(CurrentFilteredOptions)

PositionIn(seq, x) == CHOOSE i \in 1..Len(seq) : seq[i] = x

\* JavaScript's === on two sort criteria.
SameCriterion(a, b) == a.kind # "NaN" /\ a = b

\* C10: for every sort key and both directions, two filtered Options with
\* equal sort projections are in the sorted output in the order they have in
\* the filtered list, which is the generation order.
C10_SortIsStable ==
  sortField \in SortKeys =>
    LET filtered == filteredOptions
        sorted == orderBy(filtered, sortField, sortDirection, selectedCurrency,
                          exchangeRate)
    IN  /\ Len(sorted) = Len(filtered)
        /\ \A i, j \in Indices(sorted) :
             ( /\ i < j
               /\ SameCriterion(
                    SortCriterion(sorted[i], sortField, selectedCurrency, exchangeRate),
                    SortCriterion(sorted[j], sortField, selectedCurrency, exchangeRate)) )
             => PositionIn(filtered, sorted[i]) < PositionIn(filtered, sorted[j])

\* A descending sort by duration of Options of two durations: Options of
\* equal duration are moved past Options of the other one.
C10_Witness ==
  /\ sortField = "duration"
  /\ sortDirection = "desc"
  /\ LET filtered == filteredOptions
         sorted == sortedOptions
     IN  /\ sorted # filtered
         /\ \E i, j \in Indices(sorted) :
              i < j /\ sorted[i].duration = sorted[j].duration

\* The sign of the comparison of two leave records by total leave first and
\* German leave among equal totals.
CompareTotalThenGerman(a, b) ==
  LET totalA == a.german + a.indian
      totalB == b.german + b.indian
  IN  IF totalA < totalB THEN -1
      ELSE IF totalA > totalB THEN 1
      ELSE IF a.german < b.german THEN -1
      ELSE IF a.german > b.german THEN 1
      ELSE 0

\* The leave records of the Options of `options`.
LeavesOf(options) == { options[i].leaves : i \in Indices(options) }

\* C11: for any two Options the generator returns, the comparison of their
\* composite 'leaves' keys that the sort makes has the outcome of comparing
\* them by total leave days first and by German leave days among equal
\* totals, Options with a fractional Indian leave included.
C11_LeavesKeyOrdersByTotalThenGerman ==
  LET options == GeneratedOptions
      leaves == LeavesOf(options)
      optionOf == [ l \in leaves |->
                      options[CHOOSE i \in Indices(options) : options[i].leaves = l] ]
      keyOf == [ l \in leaves |->
                   SortCriterion(optionOf[l], "leaves", selectedCurrency, exchangeRate) ]
  IN  \A a, b \in leaves :
        compareAscending(keyOf[a], keyOf[b]) = CompareTotalThenGerman(a, b)

\* The generated Options hold two of equal total leave and different German
\* leave, two whose totals and German leaves are ordered in opposite ways,
\* and one with half a day of Indian leave.
C11_Witness ==
  LET leaves == LeavesOf(GeneratedOptions)
  IN  /\ \E a, b \in leaves :
           a.german + a.indian = b.german + b.indian /\ a.german < b.german
      /\ \E a, b \in leaves :
           a.german + a.indian < b.german + b.indian /\ a.german > b.german
      /\ \E a \in leaves : a.indian % 2 = 1

\* The start ordinal of an Option, read back from its start label.
StartOf(option) == CHOOSE start \in 1..WindowEnd : DateLabel(start) = option.dates.start

\* The half days a calendar day counts for: none on a Saturday or Sunday, none
\* on a weekday whose own date is a holiday, one on a hybrid weekday that is
\* no holiday, two on any other weekday.
DayWeight(day, holidays, hybridDays) ==
  IF GetDay(day) = 0 \/ GetDay(day) = 6 THEN 0
  ELSE IF Includes(holidays, LocalYMD(day)) THEN 0
  ELSE IF Includes(hybridDays, LocalYMD(day)) THEN 1
  ELSE 2

RECURSIVE SumOfWeights(_, _, _, _)
SumOfWeights(day, end, holidays, hybridDays) ==
  IF day > end THEN 0
  ELSE DayWeight(day, holidays, hybridDays)
       + SumOfWeights(day + 1, end, holidays, hybridDays)

\* C12: for the range of every generated Option, getWorkingDays called with
\* the German holidays and no hybrid day, and with the Indian holidays and
\* the hybrid days, returns the sum over each day of the inclusive range of
\* 0 for a Saturday or Sunday, 0 for a weekday that is a holiday, 0.5 for a
\* hybrid weekday that is no holiday and 1 for any other weekday, each day
\* tested with its own calendar date; the leaves of the Option are these sums.
C12_WorkingDaysIsSumOfDayWeights ==
  LET options == GeneratedOptions
  IN  \A i \in Indices(options) :
        LET option == options[i]
            start == StartOf(option)
            end == start + option.duration - 1
        IN  /\ getWorkingDays(start, end, option.holidays.german, <<>>, utcOffset)
                 = SumOfWeights(start, end, option.holidays.german, <<>>)
            /\ getWorkingDays(start, end, option.holidays.indian,
                              option.hybridDays.hatim, utcOffset)
                 = SumOfWeights(start, end, option.holidays.indian,
                                option.hybridDays.hatim)
            /\ option.leaves.german
                 = SumOfWeights(start, end, option.holidays.german, <<>>)
            /\ option.leaves.indian
                 = SumOfWeights(start, end, option.holidays.indian,
                                option.hybridDays.hatim)

\* What getWeekendCount and getWorkingDays (no holiday, no hybrid day, half
\* days) return for the ranges of the window, tabulated.
RangeCounts ==
  [ offset \in UtcOffsets, start \in 1..WindowEnd, end \in 1..WindowEnd |->
      [ weekends |-> getWeekendCount(start, end),
        working |-> getWorkingDays(start, end, <<>>, <<>>, offset) ] ]

\* C13: for every range start <= end of the window, a single day included,
\* the weekend count plus the working days counted with no holiday and no
\* hybrid day is the number of days of the inclusive range.
C13_WeekendsPlusWorkingDaysIsLength ==
  \A start, end \in 1..WindowEnd :
    start <= end =>
      2 * RangeCounts[utcOffset, start, end].weekends
        + RangeCounts[utcOffset, start, end].working
      = 2 * (end - start + 1)

\* A generated Option spans a weekend, and the single-day ranges hold a
\* Saturday, counted as a weekend day, and a weekday, counted as a working day.
C13_Witness ==
  /\ \E i \in Indices(GeneratedOptions) :
       LET option == GeneratedOptions[i]
           start == StartOf(option)
       IN  /\ option.weekends = getWeekendCount(start, start + option.duration - 1)
           /\ option.weekends >= 2
  /\ \E day \in 1..WindowEnd :
       /\ getWeekendCount(day, day) = 1
       /\ getWorkingDays(day, day, <<>>, <<>>, utcOffset) = 0
  /\ \E day \in 1..WindowEnd :
       /\ getWeekendCount(day, day) = 0
       /\ getWorkingDays(day, day, <<>>, <<>>, utcOffset) = 2

\* The weekdays (Monday to Friday) of the inclusive range.
WeekdaysOf(start, end) ==
  Cardinality({ day \in start..end : GetDay(day) # 0 /\ GetDay(day) # 6 })

\* C14: the Option from April 18 lasting 7 days has the German holidays
\* 2025-04-18 and 2025-04-21 in range, the Indian holiday 2025-04-18, no
\* hybrid day, a weekend count of 2, and as German leave the weekdays of
\* April 18 to 24 minus the 2 German-holiday weekdays.
C14_AprilEighteenSevenDays ==
  LET options == GeneratedOptions
  IN  \A i \in Indices(options) :
        ( options[i].dates.start = DateLabel(18) /\ options[i].duration = 7 ) =>
          /\ options[i].holidays.german = << <<2025, 4, 18>>, <<2025, 4, 21>> >>
          /\ options[i].holidays.indian = << <<2025, 4, 18>> >>
          /\ options[i].hybridDays.hatim = <<>>
          /\ options[i].weekends = 2
          /\ options[i].leaves.german = 2 * (WeekdaysOf(18, 24) - 2)

\* a is before b in the lexicographic order of strings of UTF-16 code units:
\* a is a proper prefix of b, or the first unit they differ in is smaller in a.
LexBefore(a, b) ==
  \E k \in 1..Len(b) :
    /\ \A n \in 1..(k - 1) : n <= Len(a) /\ a[n] = b[n]
    /\ k > Len(a) \/ a[k] < b[k]

\* C15: with sort key 'dates', of any two Options of the list the one with
\* the lexicographically smaller start label comes first in the ascending
\* output (last in the descending one), whatever their start days are.
C15_DatesSortIsLexicographic ==
  sortField = "dates" =>
    LET sorted == sortedOptions
    IN  /\ Len(sorted) = Len(filteredOptions)
        /\ \A i, j \in Indices(sorted) :
             LexBefore(sorted[i].dates.start, sorted[j].dates.start) =>
               IF sortDirection = "asc" THEN i < j ELSE j < i

\* An ascending sort by 'dates' that puts a later start day before an earlier
\* one ("April 10" before "April 9", "April 30" before "April 4") and the
\* starts of May last.
C15_Witness ==
  /\ sortField = "dates"
  /\ sortDirection = "asc"
  /\ LET sorted == sortedOptions
     IN  /\ \E i, j \in Indices(sorted) :
              /\ i < j
              /\ sorted[i].dates.start = DateLabel(10)
              /\ sorted[j].dates.start = DateLabel(9)
         /\ \E i, j \in Indices(sorted) :
              /\ i < j
              /\ StartOf(sorted[i]) = 30
              /\ StartOf(sorted[j]) = 4
         /\ sorted[Len(sorted)].dates.start = DateLabel(LastStartDate)

\* The largest of the fares 1, 2, ... the rounding is examined on.
MaxFare == 1500

\* The fares, in rupees, that the generator reads for its Options: those of
\* the six tables on the start day and on the end day of each.
GeneratedFares ==
  LET options == GeneratedOptions
  IN  UNION { { FareOfDay(table, StartOf(options[i])) \div 100,
                FareOfDay(table, StartOf(options[i]) + options[i].duration - 1) \div 100 } :
              table \in DOMAIN prices, i \in Indices(options) }

\* C16: for every positive integer fare x (the fares up to MaxFare and the
\* fares the generator reads), rounding the rounded fare gives the rounded
\* fare again, and the rounded fare is the multiple of 500 nearest to x, the
\* upper one when x is exactly halfway (remainder 250).
C16_RoundingIdempotentNearestHalfUp ==
  \A x \in (1..MaxFare) \cup GeneratedFares :
    LET rounded == roundToNearest500(100 * x)
    IN  /\ roundToNearest500(rounded) = rounded
        /\ rounded % 50000 = 0
        /\ rounded - 100 * x <= 25000
        /\ 100 * x - rounded < 25000

\* The generator rounds its fares, and the fares examined hold exact halves,
\* fares rounded up, fares rounded down and multiples of 500.
C16_Witness ==
  /\ roundPrices
  /\ GeneratedOptions # <<>>
  /\ \E x \in 1..MaxFare :
       x % 500 = 250 /\ roundToNearest500(100 * x) = 100 * (x + 250)
  /\ \E x \in 1..MaxFare : x % 500 = 0 /\ roundToNearest500(100 * x) = 100 * x
  /\ \E x, y \in GeneratedFares :
       roundToNearest500(100 * x) > 100 * x /\ roundToNearest500(100 * y) < 100 * y

\* The field each column shows.
OwnField ==
  [ Dates |-> "dates", Duration |-> "duration", HasanCost |-> "hasan",
    HatimCost |-> "hatim", HussainCost |-> "hussain", TotalCost |-> "total",
    LeaveDays |-> "leaves" ]

\* C17: a click on a column header makes the field of that column the sort
\* key, with direction ascending when the key changes and toggled when the
\* key was that field already.
C17_HeaderClickSetsOwnField ==
  [][ \A header \in DOMAIN Headers :
        HeaderClick(header) =>
          /\ sortField' = OwnField[header]
          /\ sortDirection' =
               IF sortField # OwnField[header] THEN "asc"
               ELSE IF sortDirection = "asc" THEN "desc" ELSE "asc" ]_vars

====
